---- MODULE Spec2Model ----
(***************************************************************************)
(* RemoteDatabase (rust/lancedb/src/remote/db.rs): the remote connection   *)
(* of LanceDB.  Every operation of ConnectionInternal is one call that     *)
(* builds a request, sends it through RestfulLanceDbClient, and classifies *)
(* the response.  Several calls may be in flight on one connection.        *)
(***************************************************************************)
EXTENDS Integers, Sequences, FiniteSets, TLC

(* ------------------------------ bounds -------------------------------- *)

\* Calls that may be in flight at once on the connection (Spec, SpecRace).
NumCalls == 2
\* Largest `limit` a caller passes to table_names.
MaxLimit == 2
\* Longest table listing a response body carries.
MaxTables == 2
\* Longest sequence of batches a RecordBatchReader yields.
MaxBatches == 2

(* --------------------------- program constants ------------------------ *)

BAD_REQUEST == 400
NOT_FOUND == 404

ARROW_STREAM_CONTENT_TYPE == "application/vnd.apache.arrow.stream"

(* ------------------------------ values -------------------------------- *)

\* Option<T>: None is <<>>, Some(v) is <<v>>.
None == << >>
Some(v) == <<v>>
Option(S) == {None} \cup {Some(v) : v \in S}

Calls == 1..NumCalls
Names == {"table1", "table2"}

\* Sequences over S of length at most n.
SeqUpTo(S, n) == UNION {[1..k -> S] : k \in 0..n}

\* str::contains: pat occurs in s as a contiguous substring.
Contains(s, pat) ==
    \E i \in 1..(Len(s) - Len(pat) + 1) : SubSeq(s, i, i + Len(pat) - 1) = pat

\* StatusCode::is_success: the 2xx range.
IsSuccess(status) == status \in 200..299

(* A JSON value as serde_json reads it off the wire; the fields of an object
   are its <<key, value>> pairs in document order, repeated keys included. *)
JStr(s) == [kind |-> "string", s |-> s]
JNum(n) == [kind |-> "number", n |-> n]
JArr(items) == [kind |-> "array", items |-> items]
JObj(fields) == [kind |-> "object", fields |-> fields]
NotJson == [kind |-> "invalid"]

\* A response body: the raw text, what a JSON parser makes of it, and whether
\* the client can read it to its end.
TextBody(s) == [text |-> s, json |-> NotJson, readable |-> TRUE]

\* A body whose read fails: the connection breaks after the status line.
BrokenBody == [text |-> "", json |-> NotJson, readable |-> FALSE]

RECURSIVE JoinNames(_)
JoinNames(names) ==
    IF names = << >> THEN ""
    ELSE IF Len(names) = 1 THEN "\"" \o names[1] \o "\""
    ELSE "\"" \o names[1] \o "\", " \o JoinNames(Tail(names))

\* The listing document {"tables": [...]} with an optional page token.
ListBody(names, token) ==
    [text |-> "{\"tables\": [" \o JoinNames(names) \o "]"
              \o (IF token = None THEN ""
                  ELSE ", \"page_token\": \"" \o token[1] \o "\"")
              \o "}",
     json |-> JObj(<< <<"tables", JArr([i \in 1..Len(names) |-> JStr(names[i])])>> >>
                   \o (IF token = None THEN << >>
                       ELSE << <<"page_token", JStr(token[1])>> >>)),
     readable |-> TRUE]

(* ------------------------------ results ------------------------------- *)

Pending == [tag |-> "Pending"]
OkTable(t) == [tag |-> "Table", table |-> t]
OkNames(s) == [tag |-> "Names", names |-> s]
OkUnit == [tag |-> "Unit"]
TableAlreadyExists(name) == [tag |-> "TableAlreadyExists", name |-> name]
InvalidInput(message) == [tag |-> "InvalidInput", message |-> message]
TableNotFound(name) == [tag |-> "TableNotFound", name |-> name]
NotSupported(message) == [tag |-> "NotSupported", message |-> message]
ServiceError(status, body) == [tag |-> "ServiceError", status |-> status, body |-> body]
TransportError == [tag |-> "TransportError"]
BodyError == [tag |-> "BodyError"]
DecodeError == [tag |-> "DecodeError"]
ArrowError == [tag |-> "ArrowError"]

OkTags == {"Table", "Names", "Unit"}
IsOk(r) == r.tag \in OkTags
IsErr(r) == r.tag \notin OkTags \cup {"Pending"}

(* --------------------------- call arguments --------------------------- *)

\* One item of a RecordBatchReader: Ok(batch) or Err(ArrowError).
OkBatch(rows) == [ok |-> TRUE, rows |-> rows]
ErrBatch == [ok |-> FALSE, rows |-> 0]

\* The data handed to create_table: a schema and the reader's items (no item
\* for create_empty_table).
Data(batches) == [schema |-> "a: Int32", batches |-> batches]

\* TableNamesBuilder, CreateTableBuilder + data, OpenTableBuilder.
TableNamesOptions(start_after, limit) == [start_after |-> start_after, limit |-> limit]
CreateTableOptions(name, data) == [name |-> name, data |-> data]
OpenTableOptions(name, storage_options) ==
    [name |-> name, storage_options |-> storage_options]
DropTableOptions(name) == [name |-> name]
NoOptions == [unit |-> TRUE]

(* ------------------------- RestfulLanceDbClient ----------------------- *)

\* The connection's client: immutable, cloned into every table handle.
Client == [host |-> "db.us-east-1.api.lancedb.com"]

\* client.get(path), client.post(path): a request with nothing attached.
ClientGet(path) ==
    [method |-> "GET", path |-> path, query |-> << >>, headers |-> {}, body |-> None]
ClientPost(path) ==
    [method |-> "POST", path |-> path, query |-> << >>, headers |-> {}, body |-> None]

\* client.check_response(rsp): the generic service error on a non-success
\* status, carrying the status and what text of the body there is; a success
\* response is handed back with its body unread.
check_response(rsp) ==
    IF IsSuccess(rsp.status)
    THEN [ok |-> TRUE, err |-> Pending]
    ELSE [ok |-> FALSE, err |-> ServiceError(rsp.status, rsp.body.text)]

\* rsp.text().await: the body as text, or the error of reading it.
ResponseText(rsp) ==
    IF rsp.body.readable
    THEN [ok |-> TRUE, text |-> rsp.body.text]
    ELSE [ok |-> FALSE, text |-> ""]

(* ---------------------------- batch serializer ------------------------ *)

SchemaMsg(schema) == [msg |-> "schema", schema |-> schema]
BatchMsg(rows) == [msg |-> "batch", rows |-> rows]
EosMsg == [msg |-> "eos"]

\* batches_to_ipc_bytes(data): the Arrow IPC stream of the reader's batches,
\* or the reader's first error.
batches_to_ipc_bytes(data) ==
    IF \E i \in 1..Len(data.batches) : ~data.batches[i].ok
    THEN [ok |-> FALSE, bytes |-> << >>]
    ELSE [ok |-> TRUE,
          bytes |-> <<SchemaMsg(data.schema)>>
                    \o [i \in 1..Len(data.batches) |-> BatchMsg(data.batches[i].rows)]
                    \o <<EosMsg>>]

(* ------------------------------ requests ------------------------------ *)

\* TableNamesRequest with the page token attached to the bare request, which
\* loses a limit attached before it.
TableNamesRequestLosesLimit(options) ==
    LET req0 == ClientGet("/v1/table/")
        req1 == IF options.limit # None
                THEN [req0 EXCEPT !.query =
                         Append(@, <<"limit", ToString(options.limit[1])>>)]
                ELSE req0
    IN  IF options.start_after # None
        THEN [req0 EXCEPT !.query = Append(@, <<"page_token", options.start_after[1]>>)]
        ELSE req1

\* table_names: GET /v1/table/ with limit and page_token when they are set.
TableNamesRequest(options) ==
    LET req0 == ClientGet("/v1/table/")
        req1 == IF options.limit # None
                THEN [req0 EXCEPT !.query =
                         Append(@, <<"limit", ToString(options.limit[1])>>)]
                ELSE req0
    IN  IF options.start_after # None
        THEN [req1 EXCEPT !.query = Append(@, <<"page_token", options.start_after[1]>>)]
        ELSE req1

\* do_create_table: POST /v1/table/{name}/create/ carrying the serialized data.
CreateTableRequest(options, data_buffer) ==
    [ClientPost("/v1/table/" \o options.name \o "/create/") EXCEPT
        !.body = Some(data_buffer),
        !.headers = {<<"content-type", ARROW_STREAM_CONTENT_TYPE>>,
                     <<"x-request-id", "na">>}]

\* OpenTableRequest that forwards the storage options as query parameters.
OpenTableRequestWithStorage(options) ==
    [ClientGet("/v1/table/" \o options.name \o "/describe/") EXCEPT
        !.query = IF options.storage_options = {} THEN << >>
                  ELSE <<CHOOSE kv \in options.storage_options : TRUE>>]

\* do_open_table: GET /v1/table/{name}/describe/.
OpenTableRequest(options) ==
    ClientGet("/v1/table/" \o options.name \o "/describe/")

\* drop_table: POST /v1/table/{name}/drop/.
DropTableRequest(options) ==
    ClientPost("/v1/table/" \o options.name \o "/drop/")

(* ------------------------------ outcomes ------------------------------ *)

\* RemoteTable::new(client.clone(), name) wrapped in Table::new.
RemoteTable(client, name) == [client |-> client, name |-> name]

\* Vec<String> read from a JSON value: an array whose items are all strings.
VecString(json) ==
    IF /\ json.kind = "array"
       /\ \A i \in 1..Len(json.items) : json.items[i].kind = "string"
    THEN [ok |-> TRUE, v |-> [i \in 1..Len(json.items) |-> json.items[i].s]]
    ELSE [ok |-> FALSE, v |-> << >>]

\* #[derive(Deserialize)] struct ListTablesResponse { tables: Vec<String> }.
\* The derived visitor reads the struct from a map or from a sequence.  From
\* an object: the key "tables" exactly once (a missing or a repeated key is an
\* error), every other key ignored.  From an array: its fields in order, so
\* exactly one element, the tables.  Any other JSON value is an error.
ListTablesResponse(json) ==
    LET keys == IF json.kind = "object"
                THEN {i \in 1..Len(json.fields) : json.fields[i][1] = "tables"}
                ELSE {}
        field == CASE json.kind = "object" /\ Cardinality(keys) = 1 ->
                         Some(json.fields[CHOOSE i \in keys : TRUE][2])
                   [] json.kind = "array" /\ Len(json.items) = 1 ->
                         Some(json.items[1])
                   [] OTHER -> None
        tables == IF field = None THEN [ok |-> FALSE, v |-> << >>]
                  ELSE VecString(field[1])
    IN  [ok |-> tables.ok, tables |-> tables.v]

\* s without its repeated elements, first occurrences kept.
RECURSIVE Dedup(_)
Dedup(s) ==
    IF s = << >> THEN << >>
    ELSE LET front == Dedup(SubSeq(s, 1, Len(s) - 1))
         IN  IF \E i \in 1..(Len(s) - 1) : s[i] = s[Len(s)]
             THEN front
             ELSE Append(front, s[Len(s)])

\* TableNamesOutcome that de-duplicates the listing on the client.
TableNamesOutcomeDedup(options, rsp) ==
    LET chk == check_response(rsp)
        decoded == ListTablesResponse(rsp.body.json)
    IN  IF ~chk.ok THEN chk.err
        ELSE IF ~rsp.body.readable THEN BodyError
        ELSE IF ~decoded.ok THEN DecodeError
        ELSE OkNames(Dedup(decoded.tables))

\* table_names after the response arrived: check_response, then
\* rsp.json::<ListTablesResponse>().await?, which reads the body and decodes it.
TableNamesOutcome(options, rsp) ==
    LET chk == check_response(rsp)
        decoded == ListTablesResponse(rsp.body.json)
    IN  IF ~chk.ok THEN chk.err
        ELSE IF ~rsp.body.readable THEN BodyError
        ELSE IF ~decoded.ok THEN DecodeError
        ELSE OkNames(decoded.tables)

\* CreateTableOutcome that takes only a body equal to "already exists" as the
\* name conflict.
CreateTableOutcomeExactMatch(options, rsp) ==
    IF rsp.status = BAD_REQUEST
    THEN LET body == ResponseText(rsp)
         IN  IF ~body.ok THEN BodyError
             ELSE IF body.text = "already exists"
             THEN TableAlreadyExists(options.name)
             ELSE InvalidInput(body.text)
    ELSE LET chk == check_response(rsp)
         IN  IF ~chk.ok THEN chk.err
             ELSE OkTable(RemoteTable(Client, options.name))

\* CreateTableOutcome without the 400 branch: check_response alone.
CreateTableOutcomeNoBadRequest(options, rsp) ==
    LET chk == check_response(rsp)
    IN  IF ~chk.ok THEN chk.err
        ELSE OkTable(RemoteTable(Client, options.name))

\* do_create_table after the response arrived.
CreateTableOutcome(options, rsp) ==
    IF rsp.status = BAD_REQUEST
    THEN LET body == ResponseText(rsp)
         IN  IF ~body.ok THEN BodyError
             ELSE IF Contains(body.text, "already exists")
             THEN TableAlreadyExists(options.name)
             ELSE InvalidInput(body.text)
    ELSE LET chk == check_response(rsp)
         IN  IF ~chk.ok THEN chk.err
             ELSE OkTable(RemoteTable(Client, options.name))

\* OpenTableOutcome that forgets check_response after the 404 test.
OpenTableOutcomeNoCheck(options, rsp) ==
    IF rsp.status = NOT_FOUND
    THEN TableNotFound(options.name)
    ELSE OkTable(RemoteTable(Client, options.name))

\* do_open_table after the response arrived.
OpenTableOutcome(options, rsp) ==
    IF rsp.status = NOT_FOUND
    THEN TableNotFound(options.name)
    ELSE LET chk == check_response(rsp)
         IN  IF ~chk.ok THEN chk.err
             ELSE OkTable(RemoteTable(Client, options.name))

\* DropTableOutcome that reports a 404 as TableNotFound, as open_table does.
DropTableOutcomeNotFound(options, rsp) ==
    IF rsp.status = NOT_FOUND
    THEN TableNotFound(options.name)
    ELSE LET chk == check_response(rsp)
         IN  IF ~chk.ok THEN chk.err ELSE OkUnit

\* drop_table after the response arrived.
DropTableOutcome(options, rsp) ==
    LET chk == check_response(rsp)
    IN  IF ~chk.ok THEN chk.err ELSE OkUnit

\* drop_db: no request, no response.
DropDbOutcome ==
    NotSupported("Dropping databases is not supported in the remote API")

(* ------------------------------- state -------------------------------- *)

VARIABLES
    op,       \* op[c]: the operation call c runs, "none" before it is invoked
    options,  \* options[c]: the builder the operation was called with
    pc,       \* pc[c]: where call c stands: "idle", "serialize", "send", "await"
              \* (in client.send), "recv" (client.send returned), "body"
              \* (suspended at a body read), "done"
    payload,  \* payload[c]: data_buffer of do_create_table, once serialized
    req,      \* req[c]: the request call c handed to client.send
    nsent,    \* nsent[c]: how many requests call c handed to client.send
    rsp,      \* rsp[c]: the response to call c's request that reaches the client
    res,      \* res[c]: what call c returned to its caller
    handles,  \* every Table constructed so far, with the call that built it
    tables    \* the remote service's tables

vars == <<op, options, pc, payload, req, nsent, rsp, res, handles, tables>>

Response(status, body) == [status |-> status, body |-> body]

\* The request an operation builds before client.send.
BuildRequest(o, opts, data_buffer) ==
    CASE o = "table_names"  -> TableNamesRequest(opts)
      [] o = "create_table" -> CreateTableRequest(opts, data_buffer[1])
      [] o = "open_table"   -> OpenTableRequest(opts)
      [] o = "drop_table"   -> DropTableRequest(opts)

\* What an operation returns once client.send returned a response.
Outcome(o, opts, r) ==
    CASE o = "table_names"  -> TableNamesOutcome(opts, r)
      [] o = "create_table" -> CreateTableOutcome(opts, r)
      [] o = "open_table"   -> OpenTableOutcome(opts, r)
      [] o = "drop_table"   -> DropTableOutcome(opts, r)

Init ==
    /\ op = [c \in Calls |-> "none"]
    /\ options = [c \in Calls |-> NoOptions]
    /\ pc = [c \in Calls |-> "idle"]
    /\ payload = [c \in Calls |-> None]
    /\ req = [c \in Calls |-> None]
    /\ nsent = [c \in Calls |-> 0]
    /\ rsp = [c \in Calls |-> None]
    /\ res = [c \in Calls |-> Pending]
    /\ handles = {}
    /\ tables = {}

\* The service may already hold tables when the connection is made.
InitAnyTables ==
    /\ op = [c \in Calls |-> "none"]
    /\ options = [c \in Calls |-> NoOptions]
    /\ pc = [c \in Calls |-> "idle"]
    /\ payload = [c \in Calls |-> None]
    /\ req = [c \in Calls |-> None]
    /\ nsent = [c \in Calls |-> 0]
    /\ rsp = [c \in Calls |-> None]
    /\ res = [c \in Calls |-> Pending]
    /\ handles = {}
    /\ tables \in SUBSET Names

(* ------------------------------ the calls ----------------------------- *)

\* The caller invokes table_names(options): the request is built next.
CallTableNames(c, opts) ==
    /\ pc[c] = "idle"
    /\ op' = [op EXCEPT ![c] = "table_names"]
    /\ options' = [options EXCEPT ![c] = opts]
    /\ pc' = [pc EXCEPT ![c] = "send"]
    /\ UNCHANGED <<payload, req, nsent, rsp, res, handles, tables>>

\* The caller invokes do_create_table(options, data): the data is handed to
\* spawn_blocking first.
CallCreateTable(c, opts) ==
    /\ pc[c] = "idle"
    /\ op' = [op EXCEPT ![c] = "create_table"]
    /\ options' = [options EXCEPT ![c] = opts]
    /\ pc' = [pc EXCEPT ![c] = "serialize"]
    /\ UNCHANGED <<payload, req, nsent, rsp, res, handles, tables>>

\* The caller invokes do_open_table(options).
CallOpenTable(c, opts) ==
    /\ pc[c] = "idle"
    /\ op' = [op EXCEPT ![c] = "open_table"]
    /\ options' = [options EXCEPT ![c] = opts]
    /\ pc' = [pc EXCEPT ![c] = "send"]
    /\ UNCHANGED <<payload, req, nsent, rsp, res, handles, tables>>

\* The caller invokes drop_table(name).
CallDropTable(c, opts) ==
    /\ pc[c] = "idle"
    /\ op' = [op EXCEPT ![c] = "drop_table"]
    /\ options' = [options EXCEPT ![c] = opts]
    /\ pc' = [pc EXCEPT ![c] = "send"]
    /\ UNCHANGED <<payload, req, nsent, rsp, res, handles, tables>>

\* DropDb that posts a drop request for the whole database before failing.
DropDbSendsRequest(c) ==
    /\ pc[c] = "idle"
    /\ op' = [op EXCEPT ![c] = "drop_db"]
    /\ nsent' = [nsent EXCEPT ![c] = @ + 1]
    /\ tables' = {}
    /\ res' = [res EXCEPT ![c] = DropDbOutcome]
    /\ pc' = [pc EXCEPT ![c] = "done"]
    /\ UNCHANGED <<options, payload, req, rsp, handles>>

\* drop_db: returns NotSupported at once.
DropDb(c) ==
    /\ pc[c] = "idle"
    /\ op' = [op EXCEPT ![c] = "drop_db"]
    /\ res' = [res EXCEPT ![c] = DropDbOutcome]
    /\ pc' = [pc EXCEPT ![c] = "done"]
    /\ UNCHANGED <<options, payload, req, nsent, rsp, handles, tables>>

\* Serialize that goes on with an empty buffer when the serializer failed.
SerializeIgnoresError(c) ==
    /\ pc[c] = "serialize"
    /\ payload' = [payload EXCEPT ![c] = Some(batches_to_ipc_bytes(options[c].data).bytes)]
    /\ pc' = [pc EXCEPT ![c] = "send"]
    /\ UNCHANGED <<op, options, req, nsent, rsp, res, handles, tables>>

\* do_create_table: spawn_blocking(batches_to_ipc_bytes(data)).await.unwrap()?
Serialize(c) ==
    /\ pc[c] = "serialize"
    /\ LET r == batches_to_ipc_bytes(options[c].data)
       IN  IF r.ok
           THEN /\ payload' = [payload EXCEPT ![c] = Some(r.bytes)]
                /\ pc' = [pc EXCEPT ![c] = "send"]
                /\ res' = res
           ELSE /\ payload' = payload
                /\ pc' = [pc EXCEPT ![c] = "done"]
                /\ res' = [res EXCEPT ![c] = ArrowError]
    /\ UNCHANGED <<op, options, req, nsent, rsp, handles, tables>>

\* The request is built and client.send(req) puts it on the wire.
Send(c) ==
    /\ pc[c] = "send"
    /\ req' = [req EXCEPT ![c] = Some(BuildRequest(op[c], options[c], payload[c]))]
    /\ nsent' = [nsent EXCEPT ![c] = @ + 1]
    /\ pc' = [pc EXCEPT ![c] = "await"]
    /\ UNCHANGED <<op, options, payload, rsp, res, handles, tables>>

\* TransportFail that sends the request again instead of returning the error.
TransportFailRetries(c) ==
    /\ pc[c] \in {"send", "await", "recv"}
    /\ IF pc[c] = "send"
       THEN /\ req' = [req EXCEPT ![c] =
                          Some(BuildRequest(op[c], options[c], payload[c]))]
            /\ nsent' = [nsent EXCEPT ![c] = @ + 1]
       ELSE UNCHANGED <<req, nsent>>
    /\ rsp' = [rsp EXCEPT ![c] = None]
    /\ pc' = [pc EXCEPT ![c] = "send"]
    /\ UNCHANGED <<op, options, payload, res, handles, tables>>

\* client.send(req).await? fails below HTTP and the error goes to the caller:
\* at the first poll (the request is handed over and fails at once), while
\* the call waits for the response, or after the service handled the request
\* and its response is lost on the way back.
TransportFail(c) ==
    /\ pc[c] \in {"send", "await", "recv"}
    /\ IF pc[c] = "send"
       THEN /\ req' = [req EXCEPT ![c] =
                          Some(BuildRequest(op[c], options[c], payload[c]))]
            /\ nsent' = [nsent EXCEPT ![c] = @ + 1]
       ELSE UNCHANGED <<req, nsent>>
    /\ rsp' = [rsp EXCEPT ![c] = None]
    /\ res' = [res EXCEPT ![c] = TransportError]
    /\ pc' = [pc EXCEPT ![c] = "done"]
    /\ UNCHANGED <<op, options, payload, handles, tables>>

\* Whether operation o reads the body of response r before it returns:
\* rsp.text() on a 400 in do_create_table, rsp.json() on a success in
\* table_names, and check_response on every non-success status it is given
\* (do_open_table returns on a 404 before check_response).
ReadsBody(o, r) ==
    CASE o = "table_names"  -> TRUE
      [] o = "create_table" -> r.status = BAD_REQUEST \/ ~IsSuccess(r.status)
      [] o = "open_table"   -> r.status # NOT_FOUND /\ ~IsSuccess(r.status)
      [] o = "drop_table"   -> ~IsSuccess(r.status)

\* client.send returned the response and the body is not there yet: the call
\* is suspended at rsp.text().await, rsp.json().await or
\* check_response(rsp).await, and other calls run meanwhile.
AwaitBody(c) ==
    /\ pc[c] = "recv"
    /\ ReadsBody(op[c], rsp[c][1])
    /\ pc' = [pc EXCEPT ![c] = "body"]
    /\ UNCHANGED <<op, options, payload, req, nsent, rsp, res, handles, tables>>

\* The operation has what it needs of the response (at once after
\* client.send returned, or when the awaited body read ended): it classifies
\* the response and returns; a body whose read fails ends the call in that
\* error.
Complete(c) ==
    /\ pc[c] \in {"recv", "body"}
    /\ LET out == Outcome(op[c], options[c], rsp[c][1])
       IN  /\ res' = [res EXCEPT ![c] = out]
           /\ handles' = IF out.tag = "Table"
                         THEN handles \cup {[table |-> out.table, by |-> c]}
                         ELSE handles
    /\ pc' = [pc EXCEPT ![c] = "done"]
    /\ UNCHANGED <<op, options, payload, req, nsent, rsp, tables>>

(* ----------------------------- the service ---------------------------- *)

\* A handler that answers the request of call c with response r, whatever the
\* request (the tests' new_with_handler).
MockAnswer(c, r) ==
    /\ pc[c] = "await"
    /\ rsp' = [rsp EXCEPT ![c] = Some(r)]
    /\ pc' = [pc EXCEPT ![c] = "recv"]
    /\ UNCHANGED <<op, options, payload, req, nsent, res, handles, tables>>

\* The per-table endpoints a request addresses: <<endpoint, table name>>.
Endpoint(r) ==
    {e \in {"create", "describe", "drop"} \X Names :
        /\ r.path = "/v1/table/" \o e[2] \o "/" \o e[1] \o "/"
        /\ r.method = (IF e[1] = "describe" THEN "GET" ELSE "POST")}

DescribeBody(name) ==
    [text |-> "{\"table\": \"" \o name \o "\"}",
     json |-> JObj(<< <<"table", JStr(name)>> >>), readable |-> TRUE]

\* The remote service on a per-table request: create makes the table unless
\* the name is taken, describe confirms it, drop removes it and answers 200
\* whether or not it existed.
ServiceResponse(e, tbls) ==
    CASE e[1] = "create" ->
            IF e[2] \in tbls
            THEN Response(400, TextBody("table " \o e[2] \o " already exists"))
            ELSE Response(200, TextBody(""))
      [] e[1] = "describe" ->
            IF e[2] \in tbls
            THEN Response(200, DescribeBody(e[2]))
            ELSE Response(404, TextBody("table not found"))
      [] e[1] = "drop" -> Response(200, TextBody(""))

ServiceTables(e, tbls) ==
    CASE e[1] = "create" -> tbls \cup {e[2]}
      [] e[1] = "describe" -> tbls
      [] e[1] = "drop" -> tbls \ {e[2]}

\* The service handles the request of call c and answers it; the status
\* reaches the client, and the body does when intact.
ServiceAnswer(c, intact) ==
    /\ pc[c] = "await"
    /\ Endpoint(req[c][1]) # {}
    /\ LET e == CHOOSE e \in Endpoint(req[c][1]) : TRUE
           r == ServiceResponse(e, tables)
       IN  /\ rsp' = [rsp EXCEPT ![c] =
                         Some(IF intact THEN r ELSE Response(r.status, BrokenBody))]
           /\ tables' = ServiceTables(e, tables)
    /\ pc' = [pc EXCEPT ![c] = "recv"]
    /\ UNCHANGED <<op, options, payload, req, nsent, res, handles>>

(* ------------------------------- inputs ------------------------------- *)

Statuses == {200, 204, 400, 404, 500}

TextBodies ==
    {TextBody(""), TextBody("table table1 already exists"),
     TextBody("table already exist"), TextBody("invalid schema")}

\* Well-formed listings: every order, duplicates, with and without a token.
ListBodies ==
    {ListBody(names, token) :
        names \in SeqUpTo(Names, MaxTables), token \in Option({"token"})}

\* A readable body with JSON text and its parse.
JsonBody(text, json) == [text |-> text, json |-> json, readable |-> TRUE]

\* Bodies in the sequence form of the struct, which the decoder also accepts:
\* [["table1"]] and [["table2", "table1"]].
SequenceBodies ==
    {JsonBody("[[\"table1\"]]", JArr(<<JArr(<<JStr("table1")>>)>>)),
     JsonBody("[[\"table2\", \"table1\"]]",
              JArr(<<JArr(<<JStr("table2"), JStr("table1")>>)>>))}

\* Bodies the decoder rejects: no JSON, no tables, tables that are no array
\* of strings, tables given twice, and arrays of another length than one.
MalformedBodies ==
    {TextBody(""),
     JsonBody("{\"page_token\": \"token\"}",
              JObj(<< <<"page_token", JStr("token")>> >>)),
     JsonBody("{\"tables\": \"table1\"}",
              JObj(<< <<"tables", JStr("table1")>> >>)),
     JsonBody("{\"tables\": [\"table1\", 3]}",
              JObj(<< <<"tables", JArr(<<JStr("table1"), JNum(3)>>)>> >>)),
     JsonBody("{\"tables\": [\"table1\"], \"tables\": [\"table1\"]}",
              JObj(<< <<"tables", JArr(<<JStr("table1")>>)>>,
                      <<"tables", JArr(<<JStr("table1")>>)>> >>)),
     JsonBody("[]", JArr(<< >>)),
     JsonBody("[\"table1\"]", JArr(<<JStr("table1")>>)),
     JsonBody("[[\"table1\"], \"token\"]",
              JArr(<<JArr(<<JStr("table1")>>), JStr("token")>>))}

\* Every response a handler may give to one call of operation o.
Responses(o) ==
    IF o = "table_names"
    THEN {Response(st, b) :
             st \in Statuses,
             b \in ListBodies \cup SequenceBodies \cup MalformedBodies \cup {BrokenBody}}
    ELSE {Response(st, b) : st \in Statuses, b \in TextBodies \cup {BrokenBody}}

DataSet == {Data(b) : b \in SeqUpTo({OkBatch(3), ErrBatch}, MaxBatches)}

TableNamesInputs ==
    {TableNamesOptions(sa, l) :
        sa \in Option({"table2"}), l \in Option(1..MaxLimit)}
CreateTableInputs == {CreateTableOptions(n, d) : n \in Names, d \in DataSet}
OpenTableInputs ==
    {OpenTableOptions(n, so) : n \in Names, so \in {{}, {<<"key", "value">>}}}
DropTableInputs == {DropTableOptions(n) : n \in Names}

\* The data of the create_table calls that run concurrently: one that
\* serializes and one that does not.
ConcurrentData == {Data(<< >>), Data(<<ErrBatch>>)}

\* The responses a handler gives to the calls that run concurrently: for each
\* operation a success, each non-success status it tells apart, another
\* non-success status, and a body that cannot be read where it reads one.
ConcurrentResponses(o) ==
    CASE o = "table_names" ->
            {Response(200, ListBody(<<"table1">>, None)), Response(200, BrokenBody),
             Response(500, ListBody(<<"table1">>, None))}
      [] o = "create_table" ->
            {Response(200, TextBody("")),
             Response(400, TextBody("table table1 already exists")),
             Response(400, TextBody("invalid schema")),
             Response(400, BrokenBody),
             Response(500, TextBody(""))}
      [] o = "open_table" ->
            {Response(200, TextBody("")), Response(404, TextBody("table not found")),
             Response(500, TextBody(""))}
      [] o = "drop_table" ->
            {Response(200, TextBody("")), Response(404, TextBody("table not found")),
             Response(500, TextBody(""))}
      [] OTHER -> {}

(* --------------------------- specifications --------------------------- *)

\* One call on the connection, over every input and every response.
NextCall ==
    \/ \E opts \in TableNamesInputs : CallTableNames(1, opts)
    \/ \E opts \in CreateTableInputs : CallCreateTable(1, opts)
    \/ \E opts \in OpenTableInputs : CallOpenTable(1, opts)
    \/ \E opts \in DropTableInputs : CallDropTable(1, opts)
    \/ DropDb(1)
    \/ Serialize(1)
    \/ Send(1)
    \/ TransportFail(1)
    \/ \E r \in Responses(op[1]) : MockAnswer(1, r)
    \/ \E intact \in BOOLEAN : ServiceAnswer(1, intact)
    \/ AwaitBody(1)
    \/ Complete(1)

SpecCall == InitAnyTables /\ [][NextCall]_vars

\* NumCalls calls in flight at once on one connection, in every interleaving.
\* A request is answered by a handler or by the service; the bodies that
\* cannot be read are among the handler's responses.
Next ==
    \E c \in Calls :
        \/ CallTableNames(c, TableNamesOptions(None, None))
        \/ \E n \in Names, d \in ConcurrentData :
               CallCreateTable(c, CreateTableOptions(n, d))
        \/ \E n \in Names : CallOpenTable(c, OpenTableOptions(n, {}))
        \/ \E n \in Names : CallDropTable(c, DropTableOptions(n))
        \/ DropDb(c)
        \/ Serialize(c)
        \/ Send(c)
        \/ TransportFail(c)
        \/ \E r \in ConcurrentResponses(op[c]) : MockAnswer(c, r)
        \/ ServiceAnswer(c, TRUE)
        \/ AwaitBody(c)
        \/ Complete(c)

Spec == Init /\ [][Next]_vars

\* NumCalls concurrent create_table calls against the remote service, which
\* handles every request that reaches it.  The calls fail as the code lets
\* them: the data may not serialize, the request or the response may be lost
\* in transport, and the body of a response may not be readable.
NextRace ==
    \E c \in Calls :
        \/ \E n \in Names, d \in ConcurrentData :
               CallCreateTable(c, CreateTableOptions(n, d))
        \/ Serialize(c)
        \/ Send(c)
        \/ TransportFail(c)
        \/ \E intact \in BOOLEAN : ServiceAnswer(c, intact)
        \/ AwaitBody(c)
        \/ Complete(c)

SpecRace == InitAnyTables /\ [][NextRace]_vars

(* ------------------------------- claims ------------------------------- *)

Finished(c, o) == op[c] = o /\ pc[c] = "done" /\ rsp[c] # None

\* C1 as stated: the outcome of create_table is fixed by the status and the
\* body text of every response: 400 with a body containing "already exists"
\* is TableAlreadyExists{requested name}; 400 with any other body is
\* InvalidInput{body}; any other non-success status is the generic service
\* error; a success status is a Table named as requested.
C1_CreateOutcomeFixedByResponse ==
    \A c \in Calls :
        Finished(c, "create_table") =>
            LET status == rsp[c][1].status
                body == rsp[c][1].body.text
                name == options[c].name
                conflict == Contains(body, "already exists")
            IN  /\ (status = 400 /\ conflict) => res[c] = TableAlreadyExists(name)
                /\ (status = 400 /\ ~conflict) => res[c] = InvalidInput(body)
                /\ (status # 400 /\ ~IsSuccess(status)) =>
                       res[c] = ServiceError(status, body)
                /\ IsSuccess(status) =>
                       res[c].tag = "Table" /\ res[c].table.name = name
                /\ status = 400 => res[c].tag \notin {"ServiceError", "Table"}

\* C1, amended: the outcome of create_table is fixed by the response.  A 400
\* whose body can be read is TableAlreadyExists{requested name} when the body
\* contains "already exists" and InvalidInput{body} otherwise; a 400 whose
\* body cannot be read is the error of reading it; any other non-success
\* status is the generic service error; a success status is a Table named as
\* requested.  A 400 is never the generic service error and never a Table.
C1_CreateOutcomeWhenBodyReadable ==
    \A c \in Calls :
        Finished(c, "create_table") =>
            LET status == rsp[c][1].status
                readable == rsp[c][1].body.readable
                body == rsp[c][1].body.text
                name == options[c].name
                conflict == Contains(body, "already exists")
            IN  /\ (status = 400 /\ readable /\ conflict) =>
                       res[c] = TableAlreadyExists(name)
                /\ (status = 400 /\ readable /\ ~conflict) =>
                       res[c] = InvalidInput(body)
                /\ (status = 400 /\ ~readable) => res[c] = BodyError
                /\ (status # 400 /\ ~IsSuccess(status)) =>
                       res[c].tag = "ServiceError" /\ res[c].status = status
                /\ IsSuccess(status) =>
                       res[c].tag = "Table" /\ res[c].table.name = name
                /\ status = 400 => res[c].tag \notin {"ServiceError", "Table"}

\* A create_table("table1") answered 400 "table table1 already exists" that
\* returned TableAlreadyExists{table1}.
C1_Witness ==
    \E c \in Calls :
        /\ Finished(c, "create_table")
        /\ rsp[c][1] = Response(400, TextBody("table table1 already exists"))
        /\ options[c].name = "table1"
        /\ res[c] = TableAlreadyExists("table1")

\* C2: open_table sends GET /v1/table/{name}/describe/ with no query string
\* and no body whatever the storage options, and its outcome depends on the
\* status alone: 404 is TableNotFound{requested name}, any other non-success
\* status the generic service error, success a Table named as requested.
C2_OpenIgnoresStorageOptions ==
    \A c \in Calls :
        op[c] = "open_table" =>
            LET name == options[c].name
            IN  /\ req[c] # None =>
                       /\ req[c][1].method = "GET"
                       /\ req[c][1].path = "/v1/table/" \o name \o "/describe/"
                       /\ req[c][1].query = << >>
                       /\ req[c][1].body = None
                /\ Finished(c, "open_table") =>
                       LET status == rsp[c][1].status
                       IN  /\ status = 404 => res[c] = TableNotFound(name)
                           /\ (status # 404 /\ ~IsSuccess(status)) =>
                                  res[c] = ServiceError(status, rsp[c][1].body.text)
                           /\ IsSuccess(status) =>
                                  res[c] = OkTable([client |-> Client, name |-> name])

\* An open_table("table1") with a storage option that got 200 and returned the
\* handle of table1.
C2_Witness ==
    \E c \in Calls :
        /\ Finished(c, "open_table")
        /\ options[c] = OpenTableOptions("table1", {<<"key", "value">>})
        /\ rsp[c][1].status = 200
        /\ res[c].tag = "Table"
        /\ res[c].table.name = "table1"

\* C3: every Table that exists was returned by a create_table or open_table
\* call that received a success response, and carries that call's name; no
\* failed call and no list or drop call constructs one.
C3_HandlesOnlyFromSuccess ==
    /\ \A h \in handles :
           /\ op[h.by] \in {"create_table", "open_table"}
           /\ pc[h.by] = "done"
           /\ rsp[h.by] # None
           /\ IsSuccess(rsp[h.by][1].status)
           /\ h.table.name = options[h.by].name
           /\ res[h.by] = OkTable(h.table)
    /\ \A c \in Calls :
           res[c].tag = "Table" => [table |-> res[c].table, by |-> c] \in handles

\* Two handles of the same table exist, one built by a create_table call and
\* one by an open_table call.
C3_Witness ==
    \E h1, h2 \in handles :
        /\ op[h1.by] = "create_table"
        /\ op[h2.by] = "open_table"
        /\ h1.table.name = h2.table.name

\* C4: drop_database returns NotSupported at once, whatever the state of the
\* connection and of the service: the step that runs it sends no request and
\* leaves the service's tables as they are.
C4_DropDbNotSupported ==
    [][\A c \in Calls :
          (op[c] # "drop_db" /\ op'[c] = "drop_db") =>
              /\ res'[c].tag = "NotSupported"
              /\ pc'[c] = "done"
              /\ nsent' = nsent
              /\ req' = req
              /\ tables' = tables]_vars

\* drop_database returned NotSupported while the service holds a table that a
\* request of another call created.
C4_Witness ==
    \E c, d \in Calls :
        /\ op[c] = "drop_db"
        /\ res[c].tag = "NotSupported"
        /\ nsent[c] = 0
        /\ nsent[d] = 1
        /\ tables # {}

\* C5: drop_table sends one POST /v1/table/{name}/drop/ with no body and no
\* query, and succeeds exactly when the status is a success status, whether
\* or not the table existed; it never returns TableNotFound, and any
\* non-success status is the generic service error.
C5_DropTableByStatusOnly ==
    \A c \in Calls :
        op[c] = "drop_table" =>
            /\ req[c] # None =>
                   /\ req[c][1].method = "POST"
                   /\ req[c][1].path = "/v1/table/" \o options[c].name \o "/drop/"
                   /\ req[c][1].query = << >>
                   /\ req[c][1].body = None
            /\ nsent[c] <= 1
            /\ res[c].tag # "TableNotFound"
            /\ Finished(c, "drop_table") =>
                   LET status == rsp[c][1].status
                   IN  /\ IsSuccess(status) => res[c] = OkUnit
                       /\ ~IsSuccess(status) =>
                              res[c] = ServiceError(status, rsp[c][1].body.text)

\* Two drop_table calls for the same name both succeeded while the service
\* holds no table.
C5_Witness ==
    \E c, d \in Calls :
        /\ c # d
        /\ Finished(c, "drop_table") /\ Finished(d, "drop_table")
        /\ options[c].name = options[d].name
        /\ res[c] = OkUnit /\ res[d] = OkUnit
        /\ tables = {}

\* C6: on a success status with a well-formed {"tables": [...]} body,
\* table_names returns the service's sequence of names as it is: same length,
\* same order, duplicates kept, with or without a page token in the body.
C6_TableNamesAsIs ==
    \A c \in Calls :
        (Finished(c, "table_names") /\ IsSuccess(rsp[c][1].status)) =>
            \A names \in SeqUpTo(Names, MaxTables), token \in Option({"token"}) :
                rsp[c][1].body = ListBody(names, token) => res[c] = OkNames(names)

\* table_names returned <<"table2", "table2">>, a listing with a duplicate,
\* from a body that also carries a page token.
C6_Witness ==
    \E c \in Calls :
        /\ Finished(c, "table_names")
        /\ rsp[c][1] = Response(200, ListBody(<<"table2", "table2">>, Some("token")))
        /\ res[c] = OkNames(<<"table2", "table2">>)

\* The query parameters of a request, as a set of <<key, value>>.
QueryPairs(r) == {r.query[i] : i \in 1..Len(r.query)}

\* C7: the request of table_names is GET /v1/table/ whose query holds
\* limit=<limit> exactly when limit is set and page_token=<start_after>
\* exactly when start_after is set, each once and with the caller's value,
\* and nothing else.
C7_TableNamesQuery ==
    \A c \in Calls :
        (op[c] = "table_names" /\ req[c] # None) =>
            LET r == req[c][1]
                limit == options[c].limit
                start_after == options[c].start_after
            IN  /\ r.method = "GET"
                /\ r.path = "/v1/table/"
                /\ QueryPairs(r) =
                       {<<"limit", ToString(l)>> : l \in {limit[i] : i \in 1..Len(limit)}}
                       \cup {<<"page_token", sa>> :
                                sa \in {start_after[i] : i \in 1..Len(start_after)}}
                /\ Len(r.query) = Len(limit) + Len(start_after)

\* table_names(start_after = "table2", limit = 2) sent limit=2 and
\* page_token=table2.
C7_Witness ==
    \E c \in Calls :
        /\ op[c] = "table_names"
        /\ options[c] = TableNamesOptions(Some("table2"), Some(2))
        /\ nsent[c] = 1
        /\ QueryPairs(req[c][1]) = {<<"limit", "2">>, <<"page_token", "table2">>}

\* C8, amended: of two concurrent create_table calls for the same name
\* against the service, each call whose data serializes sends its request
\* once, whatever the other call does and whatever tables exist (a call whose
\* data does not serialize returns the serialization error and sends
\* nothing); at most one call returns a Table; a call that gets no response
\* returns the transport error; a call that gets the service's response
\* returns a Table on success and otherwise TableAlreadyExists{name}, or the
\* body error when the body of the 400 cannot be read.
C8_CreateRaceWithFailures ==
    \A c, d \in Calls :
        (c # d /\ op[c] = "create_table" /\ op[d] = "create_table"
               /\ options[c].name = options[d].name) =>
            LET name == options[c].name
                ser == batches_to_ipc_bytes(options[c].data)
            IN  /\ pc[c] = "send" => ENABLED Send(c)
                /\ ~(res[c].tag = "Table" /\ res[d].tag = "Table")
                /\ pc[c] = "done" =>
                       /\ nsent[c] = (IF ser.ok THEN 1 ELSE 0)
                       /\ ser.ok => req[c] = Some(CreateTableRequest(options[c], ser.bytes))
                       /\ ~ser.ok => res[c] = ArrowError /\ req[c] = None
                       /\ (ser.ok /\ rsp[c] = None) => res[c] = TransportError
                       /\ rsp[c] # None =>
                              /\ rsp[c][1].status \in {200, BAD_REQUEST}
                              /\ res[c] =
                                     IF rsp[c][1].status = 200
                                     THEN OkTable(RemoteTable(Client, name))
                                     ELSE IF rsp[c][1].body.readable
                                     THEN TableAlreadyExists(name)
                                     ELSE BodyError

\* C8 as stated: of two concurrent create_table calls for the same name
\* against the service, each sends its request (no call waits for the other
\* and none is answered locally), at most one returns a Table, and a call
\* that does not returns TableAlreadyExists{name}.
C8_CreateRace ==
    \A c, d \in Calls :
        (c # d /\ op[c] = "create_table" /\ op[d] = "create_table"
               /\ options[c].name = options[d].name) =>
            /\ pc[c] = "send" => ENABLED Send(c)
            /\ pc[c] = "done" => nsent[c] = 1 /\ rsp[c] # None
            /\ ~(res[c].tag = "Table" /\ res[d].tag = "Table")
            /\ (pc[c] = "done" /\ res[c].tag # "Table") =>
                   res[c] = TableAlreadyExists(options[c].name)

\* Two create_table("table1") calls both finished with one request each:
\* the response to the one that created the table was lost, the other got
\* TableAlreadyExists{table1}, and no call holds a handle.
C8_Witness ==
    \E c, d \in Calls :
        /\ c # d
        /\ op[c] = "create_table" /\ op[d] = "create_table"
        /\ options[c].name = "table1" /\ options[d].name = "table1"
        /\ pc[c] = "done" /\ nsent[c] = 1 /\ res[c] = TransportError
        /\ Finished(d, "create_table") /\ nsent[d] = 1
        /\ res[d] = TableAlreadyExists("table1")
        /\ handles = {}

\* C9: a call of table_names, create_table, open_table or drop_table sends
\* at most one request and ends in one outcome; it returns nothing before it
\* is done, and it returns a success only after a success response: a
\* transport failure or a non-success response ends the call in an error.
C9_SingleExchange ==
    \A c \in Calls :
        op[c] \in {"table_names", "create_table", "open_table", "drop_table"} =>
            /\ nsent[c] <= 1
            /\ pc[c] # "done" => res[c] = Pending
            /\ pc[c] = "done" =>
                   /\ IsOk(res[c]) # IsErr(res[c])
                   /\ IsOk(res[c]) =>
                          nsent[c] = 1 /\ rsp[c] # None /\ IsSuccess(rsp[c][1].status)
                   /\ (rsp[c] = None \/ ~IsSuccess(rsp[c][1].status)) => IsErr(res[c])

\* One call ended in TransportError after its single request, and a
\* table_names call in the generic service error after a 500 whose body is a
\* listing.
C9_Witness ==
    \E c, d \in Calls :
        /\ pc[c] = "done" /\ res[c] = TransportError /\ nsent[c] = 1
        /\ Finished(d, "table_names") /\ nsent[d] = 1
        /\ rsp[d][1] = Response(500, ListBody(<<"table1">>, None))
        /\ res[d].tag = "ServiceError"

\* C10: create_table sends its request only after its serialization
\* completed, with the serializer's payload as the body; when serialization
\* fails the call returns an error, sends nothing and constructs no Table.
C10_SerializeBeforeSend ==
    \A c \in Calls :
        op[c] = "create_table" =>
            LET ser == batches_to_ipc_bytes(options[c].data)
            IN  /\ (nsent[c] > 0 \/ req[c] # None) =>
                       /\ ser.ok
                       /\ payload[c] = Some(ser.bytes)
                       /\ req[c][1].body = Some(ser.bytes)
                /\ ~ser.ok =>
                       /\ nsent[c] = 0 /\ req[c] = None /\ rsp[c] = None
                       /\ \A h \in handles : h.by # c
                       /\ pc[c] = "done" => res[c] = ArrowError
                       /\ pc[c] \in {"serialize", "done"}

\* A create_table with one batch sent schema, batch and end-of-stream as its
\* body and returned the handle.
C10_Witness ==
    \E c \in Calls :
        /\ Finished(c, "create_table")
        /\ options[c].data = Data(<<OkBatch(3)>>)
        /\ req[c][1].body =
               Some(<<SchemaMsg("a: Int32"), BatchMsg(3), EosMsg>>)
        /\ res[c].tag = "Table"

====
